---- MODULE Spec2Model ----
(***************************************************************************)
(* Model of the flight-route service of src/src/app/index.ts: the data     *)
(* loaded by createApp (airports, routes, airportsByCode), the handler of  *)
(* GET /routes-test/:source and the handler of                             *)
(* GET /routes/:source/:destination with its local findShortestRoute.      *)
(*                                                                         *)
(* Route distances are non-negative integers standing for the great-circle *)
(* kilometres of the loaded data.  A Node object is modelled by its value  *)
(* [airport, distanceFromSource, previousNode]: previousNode is <<>> for   *)
(* null and <<n>> for a reference to node n.  The value stands for the     *)
(* reference because the only node ever referenced (currentNode, line 121) *)
(* has left `nodes` (line 101) and only members of `nodes` or fresh nodes  *)
(* are written afterwards (lines 106-121).                                 *)
(*                                                                         *)
(* A behaviour is the start of the server followed by one request: the     *)
(* handlers are synchronous and share no mutable state, so requests do not *)
(* influence each other.  pc is "idle" before the request, "search" while  *)
(* the while loop of findShortestRoute runs (one action per pass) and      *)
(* "done" once the response is decided.  outcome records how the handler   *)
(* left findShortestRoute.  loopHeads is a history variable: the contents  *)
(* of nodes at the loop heads the search has passed.  MaxVisited caps the  *)
(* number of passes the model follows.                                     *)
(***************************************************************************)
EXTENDS Integers, Sequences, FiniteSets, TLC

VARIABLES airports, routes, pc, sourceAirport, destinationAirport,
          nodes, visitedNodes, outcome, shortestRoute, response, loopHeads

vars == <<airports, routes, pc, sourceAirport, destinationAirport,
          nodes, visitedNodes, outcome, shortestRoute, response, loopHeads>>

(***************************************************************************)
(* Bounds of the model.                                                    *)
(***************************************************************************)
NumAirports == 2
MaxRoutes == 2
MaxDist == 2
MaxVisited == 6
WideAirports == 5
WideDist == 1

(***************************************************************************)
(* Program constants.                                                      *)
(***************************************************************************)
maxStops == 3
Infinity == 1000000

Null == <<>>
Undefined == [id |-> 0, iata |-> Null, icao |-> Null]

\* -------------------------------------------------------------------------
\* Loaded reference data
\* -------------------------------------------------------------------------
UpperLetters == <<"A", "B", "C", "D", "E", "F", "G">>
LowerLetters == <<"a", "b", "c", "d", "e", "f", "g">>

\* Airport i: IATA code <<letter i>> except that the last airport of the data
\* has no IATA code; ICAO code <<"K", letter i>> for the even ids and the last.
AirportData(n) ==
    [i \in 1..n |->
        [id   |-> i,
         iata |-> IF i = n /\ n > 1 THEN Null ELSE <<UpperLetters[i]>>,
         icao |-> IF i = n \/ i % 2 = 0 THEN <<"K", UpperLetters[i]>> ELSE Null]]

RouteRecords(n, dists) ==
    [source : 1..n, destination : 1..n, distance : dists]

SeqsUpTo(S, n) == UNION {[1..k -> S] : k \in 0..n}

\* String.prototype.toLowerCase on a code given as a sequence of characters.
LowerChar(c) ==
    IF \E i \in DOMAIN UpperLetters : UpperLetters[i] = c
    THEN LowerLetters[CHOOSE i \in DOMAIN UpperLetters : UpperLetters[i] = c]
    ELSE IF c = "K" THEN "k" ELSE c

toLowerCase(s) == [i \in DOMAIN s |-> LowerChar(s[i])]

\* The entries of the Map built at lines 18-23, in insertion order.
CodeEntries(as) ==
    LET RECURSIVE entries(_)
        entries(i) ==
            IF i > Len(as) THEN <<>>
            ELSE (IF as[i].iata # Null
                    THEN <<[key |-> toLowerCase(as[i].iata), value |-> as[i]]>>
                    ELSE <<>>)
                 \o (IF as[i].icao # Null
                    THEN <<[key |-> toLowerCase(as[i].icao), value |-> as[i]]>>
                    ELSE <<>>)
                 \o entries(i + 1)
    IN entries(1)

\* airportsByCode.get(key): the last entry inserted under the key, or undefined.
airportsByCodeGet(key) ==
    LET es == CodeEntries(airports)
        hits == {i \in DOMAIN es : es[i].key = key}
    IN IF hits = {} THEN Undefined
       ELSE es[CHOOSE i \in hits : \A j \in hits : j <= i].value

\* The codes a client may put in a request path: every code of the data as
\* loaded, the codes of the first airport in lower case, and a code of no
\* airport.
RequestCodes ==
    ({airports[i].iata : i \in DOMAIN airports}
        \cup {airports[i].icao : i \in DOMAIN airports}
        \cup {toLowerCase(airports[1].iata), toLowerCase(airports[1].icao)}
        \cup {<<"Z">>})
    \ {Null}

\* -------------------------------------------------------------------------
\* findShortestRoute (lines 70-128)
\* -------------------------------------------------------------------------

\* Number addition with the value Infinity (Infinity + x = Infinity).
Plus(a, b) == IF a = Infinity \/ b = Infinity THEN Infinity ELSE a + b

\* Lines 71-75: one node per loaded airport, the source at distance 0.
InitialNodes(src) ==
    [i \in DOMAIN airports |->
        [airport            |-> airports[i].id,
         distanceFromSource |-> IF airports[i].id = src.id THEN 0 ELSE Infinity,
         previousNode       |-> Null]]

\* Line 80: nodes.reduce keeps the running minimum unless a later node is
\* strictly nearer, so it yields the first node of least distance.
MinIndex(ns) ==
    CHOOSE i \in DOMAIN ns :
        /\ \A j \in DOMAIN ns : ns[i].distanceFromSource <= ns[j].distanceFromSource
        /\ \A j \in 1..(i - 1) : ns[i].distanceFromSource < ns[j].distanceFromSource

\* Array.prototype.find on nodes by airport id (line 106): index or 0.
FindNode(ns, airportId) ==
    LET hits == {i \in DOMAIN ns : ns[i].airport = airportId}
    IN IF hits = {} THEN 0 ELSE CHOOSE i \in hits : \A j \in hits : i <= j

\* FindRoute without the test on the destination: the first route that leaves
\* prevAirport, wherever it goes.
FindRouteBySourceOnly(prevAirport, currAirport) ==
    LET hits == {i \in DOMAIN routes : routes[i].source = prevAirport}
    IN IF hits = {} THEN 0 ELSE CHOOSE i \in hits : \A j \in hits : i <= j

\* routes.find of line 90: index of the first route of the ordered pair, or 0.
FindRoute(prevAirport, currAirport) ==
    LET hits == {i \in DOMAIN routes :
                    /\ routes[i].source = prevAirport
                    /\ routes[i].destination = currAirport}
    IN IF hits = {} THEN 0 ELSE CHOOSE i \in hits : \A j \in hits : i <= j

\* Line 119: the relaxation test.
Improves(newDistanceFromSource, adjacentNode) ==
    newDistanceFromSource < adjacentNode.distanceFromSource

\* Lines 104-122 for one route of the for loop, on the array ns.
ExploreRoute(currentNode, route, ns, maxDistance) ==
    IF route.source # currentNode.airport THEN ns
    ELSE
        LET found == FindNode(ns, route.destination)
            newAdjacentNode == [airport            |-> route.destination,
                                distanceFromSource |-> Infinity,
                                previousNode       |-> Null]
            pushed == IF found = 0 THEN Append(ns, newAdjacentNode) ELSE ns
            skip == found = 0
                    /\ ~(Plus(currentNode.distanceFromSource, route.distance) < maxDistance)
            adjacent == IF found = 0 THEN Len(pushed) ELSE found
            newDistanceFromSource == Plus(currentNode.distanceFromSource, route.distance)
        IN IF skip THEN pushed
           ELSE IF Improves(newDistanceFromSource, pushed[adjacent])
                THEN [pushed EXCEPT ![adjacent] =
                        [airport            |-> pushed[adjacent].airport,
                         distanceFromSource |-> newDistanceFromSource,
                         previousNode       |-> <<currentNode>>]]
                ELSE pushed

\* Lines 103-124: the for loop over routes, in the order of the loaded data.
RECURSIVE Explore(_, _, _, _)
Explore(currentNode, i, ns, maxDistance) ==
    IF i > Len(routes) THEN ns
    ELSE Explore(currentNode, i + 1,
                 ExploreRoute(currentNode, routes[i], ns, maxDistance), maxDistance)

\* Line 101: nodes.splice(nodes.indexOf(currentNode), 1).
Splice(ns, i) == [j \in 1..(Len(ns) - 1) |-> IF j < i THEN ns[j] ELSE ns[j + 1]]

\* Lines 84-97: the walk back along previousNode; threw is the Error of line 92.
RECURSIVE Reconstruct(_, _)
Reconstruct(prevNode, route) ==
    IF prevNode.previousNode = Null THEN [threw |-> FALSE, route |-> route]
    ELSE
        LET prevAirport == prevNode.previousNode[1].airport
            currAirport == prevNode.airport
            prevNodeRoute == FindRoute(prevAirport, currAirport)
        IN IF prevNodeRoute = 0 THEN [threw |-> TRUE, route |-> route]
           ELSE Reconstruct(prevNode.previousNode[1], <<routes[prevNodeRoute]>> \o route)

\* -------------------------------------------------------------------------
\* Result formatting of GET /routes/:source/:destination (lines 130-140)
\* -------------------------------------------------------------------------
RECURSIVE SumDistance(_)
SumDistance(rs) ==
    IF rs = <<>> THEN 0 ELSE rs[1].distance + SumDistance(Tail(rs))

\* a || b on codes.
OrElse(a, b) == IF a # Null THEN a ELSE b

\* Lines 130-140 once findShortestRoute has returned rs: line 133 reads
\* shortestRoute[shortestRoute.length - 1].destination, a TypeError on [].
FormatResponse(rs) ==
    IF rs = <<>> THEN [status |-> 500, send |-> "TypeError"]
    ELSE [status |-> 200,
          send |-> [source      |-> OrElse(sourceAirport.iata, sourceAirport.icao),
                    destination |-> OrElse(destinationAirport.iata, destinationAirport.icao),
                    distance    |-> SumDistance(rs),
                    hops        |-> [i \in 1..(Len(rs) + 1) |->
                                        IF i <= Len(rs)
                                        THEN airports[rs[i].source].iata
                                        ELSE airports[rs[Len(rs)].destination].iata]]]

\* The content of nodes that decides every later step of the loop.
LoopHead(ns) ==
    [i \in DOMAIN ns |-> <<ns[i].airport, ns[i].distanceFromSource>>]

\* -------------------------------------------------------------------------
\* Initial states: createApp (lines 13-23)
\* -------------------------------------------------------------------------
Idle ==
    /\ pc = "idle"
    /\ sourceAirport = Undefined
    /\ destinationAirport = Undefined
    /\ nodes = <<>>
    /\ visitedNodes = <<>>
    /\ outcome = "none"
    /\ shortestRoute = <<>>
    /\ response = [status |-> 0, send |-> "none"]
    /\ loopHeads = {}

\* Any sequence of at most MaxRoutes routes among NumAirports airports, each
\* of distance 0 or MaxDist: self-loops, cycles and parallel routes included.
Init ==
    /\ airports = AirportData(NumAirports)
    /\ routes \in SeqsUpTo(RouteRecords(NumAirports, {0, MaxDist}), MaxRoutes)
    /\ Idle

\* The ordered pairs i -> j with i < j <= i + 2, in lexicographic order.
RECURSIVE ForwardPairs(_, _, _)
ForwardPairs(n, i, j) ==
    IF i >= n THEN <<>>
    ELSE IF j > n \/ j > i + 2 THEN ForwardPairs(n, i + 1, i + 2)
    ELSE <<[source |-> i, destination |-> j]>> \o ForwardPairs(n, i, j + 1)

\* The routes of a choice f of a distance, or -1 for no route, for each pair.
RECURSIVE PickRoutes(_, _, _)
PickRoutes(pairs, f, k) ==
    IF k > Len(pairs) THEN <<>>
    ELSE (IF f[k] < 0 THEN <<>>
          ELSE <<[source      |-> pairs[k].source,
                  destination |-> pairs[k].destination,
                  distance    |-> f[k]]>>)
         \o PickRoutes(pairs, f, k + 1)

\* A wider network without cycles: every airport flies at most to the next two.
InitWide ==
    /\ airports = AirportData(WideAirports)
    /\ \E f \in [1..Len(ForwardPairs(WideAirports, 1, 2)) -> (-1)..WideDist] :
          routes = PickRoutes(ForwardPairs(WideAirports, 1, 2), f, 1)
    /\ Idle

\* -------------------------------------------------------------------------
\* GET /routes-test/:source (lines 42-53)
\* -------------------------------------------------------------------------
\* Line 51 reads sourceAirport.id inside the filter callback: with sourceAirport
\* undefined that is a TypeError as soon as the callback runs, that is as soon
\* as there is a route.
RoutesTestResponse(source) ==
    LET airport == airportsByCodeGet(toLowerCase(source))
    IN IF airport = Undefined /\ routes # <<>>
       THEN [status |-> 500, send |-> "TypeError"]
       ELSE [status |-> 200,
             send |-> SelectSeq(routes, LAMBDA route : route.source = airport.id)]

RoutesTest ==
    /\ pc = "idle"
    /\ \E source \in RequestCodes :
          /\ response' = RoutesTestResponse(source)
          /\ sourceAirport' = airportsByCodeGet(toLowerCase(source))
    /\ outcome' = "routes-test"
    /\ pc' = "done"
    /\ UNCHANGED <<airports, routes, destinationAirport, nodes, visitedNodes,
                   shortestRoute, loopHeads>>

\* -------------------------------------------------------------------------
\* GET /routes/:source/:destination (lines 55-141)
\* -------------------------------------------------------------------------
\* Lines 56-76: resolve the codes; 404 or the start of findShortestRoute.
Request ==
    /\ pc = "idle"
    /\ \E source \in RequestCodes, destination \in RequestCodes :
          LET src == airportsByCodeGet(toLowerCase(source))
              dst == airportsByCodeGet(toLowerCase(destination))
          IN IF src = Undefined \/ dst = Undefined
             THEN /\ response' = [status |-> 404, send |-> "No such airport"]
                  /\ sourceAirport' = src
                  /\ destinationAirport' = dst
                  /\ nodes' = <<>>
                  /\ outcome' = "No such airport"
                  /\ pc' = "done"
             ELSE /\ response' = [status |-> 0, send |-> "none"]
                  /\ sourceAirport' = src
                  /\ destinationAirport' = dst
                  /\ nodes' = InitialNodes(src)
                  /\ outcome' = "searching"
                  /\ pc' = "search"
    /\ UNCHANGED <<airports, routes, visitedNodes, shortestRoute, loopHeads>>

\* One pass of the while loop of lines 78-125 (or its exit to line 127); a pass
\* that returns carries on through lines 130-140 to the response.
Iterate ==
    /\ pc = "search"
    /\ Len(visitedNodes) < MaxVisited
    /\ IF nodes = <<>>
       THEN /\ outcome' = "Error: No route found"
            /\ response' = [status |-> 500, send |-> "Error: No route found"]
            /\ pc' = "done"
            /\ UNCHANGED <<nodes, visitedNodes, shortestRoute, loopHeads>>
       ELSE LET idx == MinIndex(nodes)
                currentNode == nodes[idx]
            IN IF currentNode.airport = destinationAirport.id
               THEN LET r == Reconstruct(currentNode, <<>>)
                    IN /\ outcome' = IF r.threw THEN "Error: Route not found"
                                     ELSE "returned"
                       /\ shortestRoute' = IF r.threw THEN <<>> ELSE r.route
                       /\ response' = IF r.threw
                                      THEN [status |-> 500,
                                            send |-> "Error: Route not found"]
                                      ELSE FormatResponse(r.route)
                       /\ pc' = "done"
                       /\ UNCHANGED <<nodes, visitedNodes, loopHeads>>
               ELSE /\ nodes' = Explore(currentNode, 1, Splice(nodes, idx), maxStops)
                    /\ visitedNodes' = Append(visitedNodes, currentNode)
                    /\ loopHeads' = loopHeads \cup {LoopHead(nodes)}
                    /\ UNCHANGED <<outcome, shortestRoute, response, pc>>
    /\ UNCHANGED <<airports, routes, sourceAirport, destinationAirport>>

Next == RoutesTest \/ Request \/ Iterate

Spec == Init /\ [][Next]_vars

SpecWide == InitWide /\ [][Next]_vars

\* -------------------------------------------------------------------------
\* Properties
\* -------------------------------------------------------------------------
Min(S) == CHOOSE x \in S : \A y \in S : x <= y

\* The least total distance of a chain of at most k routes that leads from the
\* source airport of the query to airport v (Infinity when there is none); the
\* chain of no route leads from the source to itself.
RECURSIVE Within(_, _)
Within(k, v) ==
    IF k = 0 THEN (IF v = sourceAirport.id THEN 0 ELSE Infinity)
    ELSE Min({Within(k - 1, v)}
             \cup {Plus(Within(k - 1, routes[i].source), routes[i].distance) :
                      i \in {j \in DOMAIN routes : routes[j].destination = v}})

\* rs is a chain of routes from airport a to airport b.
IsChain(rs, a, b) ==
    /\ rs # <<>>
    /\ rs[1].source = a
    /\ rs[Len(rs)].destination = b
    /\ \A i \in 1..(Len(rs) - 1) : rs[i].destination = rs[i + 1].source

Returned == pc = "done" /\ outcome = "returned"

SearchEnded ==
    pc = "done" /\ outcome \in {"returned", "Error: No route found",
                                "Error: Route not found"}

\* The loop is at a head whose deciding content it has had before: from there
\* it repeats the same passes for ever.
LoopRecurs == pc = "search" /\ LoopHead(nodes) \in loopHeads

\* C1: every itinerary the search returns holds at most maxStops routes.
C1_HopBoundRespected ==
    Returned => Len(shortestRoute) <= maxStops

\* C2: when the search returns an itinerary, no chain of at most maxStops
\* routes from source to destination is strictly shorter than the total
\* distance of the returned routes.
C2_NoShorterChainWithinBound ==
    Returned => SumDistance(shortestRoute) <= Within(maxStops, destinationAirport.id)

\* C3: with source and destination different and no chain of at most maxStops
\* routes between them, the search ends in the error No route found and
\* returns no itinerary.
C3_NoRouteFoundWhenUnreachable ==
    (/\ SearchEnded
     /\ sourceAirport.id # destinationAirport.id
     /\ Within(maxStops, destinationAirport.id) = Infinity)
    => outcome = "Error: No route found"

\* C4: the search terminates: its loop, whose passes are decided by the
\* airports and distances held in nodes, never comes back to a content of
\* nodes it has left, which would make it run for ever.
C4_LoopNeverRecurs == ~LoopRecurs

\* C5: when a chain of at most maxStops routes leads from the source to a
\* different destination, the search returns a chain of routes from source to
\* destination: it keeps making progress, and it ends neither in an error nor
\* with an empty itinerary.
C5_ReturnsWhenReachable ==
    (/\ pc \in {"search", "done"}
     /\ outcome # "No such airport"
     /\ sourceAirport.id # destinationAirport.id
     /\ Within(maxStops, destinationAirport.id) < Infinity)
    => /\ ~LoopRecurs
       /\ pc = "done" => /\ outcome = "returned"
                         /\ IsChain(shortestRoute, sourceAirport.id,
                                    destinationAirport.id)

\* C6: a query from an airport to itself is answered with the empty itinerary
\* of distance 0: the handler responds 200 with distance 0.
C6_SameAirportSucceeds ==
    (SearchEnded /\ sourceAirport.id = destinationAirport.id)
    => /\ outcome = "returned"
       /\ shortestRoute = <<>>
       /\ response.status = 200
       /\ response.send.distance = 0

\* C7: when the returned itinerary is within the hop bound and of the least
\* distance within it, no chain of fewer routes has that same distance.
C7_FewerHopsOnTie ==
    (/\ Returned
     /\ shortestRoute # <<>>
     /\ Len(shortestRoute) <= maxStops
     /\ SumDistance(shortestRoute) = Within(maxStops, destinationAirport.id))
    => \A k \in 0..maxStops :
          Within(k, destinationAirport.id) = SumDistance(shortestRoute)
          => Len(shortestRoute) <= k

\* C8: the total distance of the returned routes is the distance the search
\* computed for the destination node.
C8_ReportedDistanceIsSearchDistance ==
    (Returned /\ shortestRoute # <<>>)
    => SumDistance(shortestRoute) = nodes[MinIndex(nodes)].distanceFromSource

\* C9: no route of a returned itinerary leads from an airport to itself.
C9_NoSelfLoopInItinerary ==
    Returned => \A i \in DOMAIN shortestRoute :
                    shortestRoute[i].source # shortestRoute[i].destination

\* A non-empty itinerary was returned after the search followed a self-loop
\* route: a node of nodes has a node of its own airport as previousNode.
C9_Witness ==
    /\ Returned
    /\ shortestRoute # <<>>
    /\ \E i \in DOMAIN nodes :
          /\ nodes[i].previousNode # Null
          /\ nodes[i].previousNode[1].airport = nodes[i].airport

\* C10: the direct-routes query never ends in a fault, whatever code is
\* supplied, and a code of an airport gets exactly the routes that leave it.
C10_DirectRoutesNeverFault ==
    (pc = "done" /\ outcome = "routes-test")
    => /\ response.status # 500
       /\ sourceAirport # Undefined =>
             /\ response.status = 200
             /\ response.send =
                   SelectSeq(routes, LAMBDA r : r.source = sourceAirport.id)

====
